---- MODULE Spec2Model ----
(***************************************************************************)
(* A model of the tempmail client library (src/lib.rs): the Domain         *)
(* registry, random identity generation, the serde decoders of Message and *)
(* RawMessage, and the four remote operations of Tempmail.                 *)
(*                                                                         *)
(* Strings are sequences of one-character strings, so that format!() is    *)
(* concatenation and a query string can be split into its parameters.      *)
(* An Option<T> is a sequence of length 0 (None) or 1 (Some).              *)
(* A Result is a pair <<"Ok", value>> or <<"Err", error>>.                 *)
(***************************************************************************)
EXTENDS Integers, Sequences, FiniteSets, TLC

VARIABLES
    \* ---- the thread-local random number generator (thread_rng)
    rng_x,          \* its state: the next sample is rng_x / RngDen
    rng_stride,     \* its seed-dependent increment
    \* ---- Tempmail::random / Domain::random in progress
    rpc,            \* position: "idle", "random_string", "domain", "done", "panicked"
    r_len,          \* local `len` of Tempmail::random
    r_string,       \* local `random_string` of random_string()
    r_index,        \* local `random_index` of the last loop iteration (-1: none yet)
    r_self,         \* the Tempmail returned by Tempmail::random, as an Option
    domain_calls,   \* the calls of Domain::random so far: sample, index, outcome
    \* ---- a Tempmail value and the remote operation running on it
    username,       \* self.username
    domain,         \* self.domain
    op,             \* the running operation ("none" when idle)
    pc,             \* position: "idle", "list_await", "hydrate_await", "read_await",
                    \*           "bytes_await", "decode", "done"
    arg,            \* the operation's arguments
    requests,       \* the URLs handed to reqwest::get by the running operation, in order
    responses,      \* what each of those requests resolved to, in order
    raw_msgs,       \* local `raw_msgs` of get_messages
    msgs,           \* local `msgs` of get_messages
    result          \* the operation's return value, as an Option of a Result

randVars   == <<rng_x, rng_stride, rpc, r_len, r_string, r_index, r_self, domain_calls>>
clientVars == <<username, domain, op, pc, arg, requests, responses, raw_msgs, msgs, result>>
vars       == <<randVars, clientVars>>

-----------------------------------------------------------------------------
(* Bounds of the model.                                                    *)

\* random samples are the rationals k / RngDen, k in 0 .. RngDen-1
RngDen == 14
\* Domain::random is called at most this often outside Tempmail::random
MaxDomainCalls == 7
\* the remote mailbox lists at most this many summaries
MaxMsgs == 2
\* message ids are IdBase .. IdBase + MaxMsgs - 1
IdBase == 9

-----------------------------------------------------------------------------
(* Generic helpers on sequences.                                           *)

Range(s) == {s[i] : i \in 1..Len(s)}

None == <<>>
Some(v) == <<v>>
IsSome(o) == Len(o) = 1

Ok(v) == <<"Ok", v>>
Err(e) == <<"Err", e>>
IsOk(r) == r[1] = "Ok"
IsErr(r) == r[1] = "Err"

-----------------------------------------------------------------------------
(* Domain: the enum, DOMAINS, Display, Default.                            *)

Domain == {"SecMailCom", "SecMailOrg", "YoggmCom", "EsiixCom", "XojxeCom",
           "SecMailNet", "WwjmpCom"}

DOMAINS == <<"SecMailCom", "SecMailOrg", "SecMailNet", "WwjmpCom", "XojxeCom",
             "EsiixCom", "YoggmCom">>

Domain_fmt(d) ==
    CASE d = "SecMailCom" -> <<"1","s","e","c","m","a","i","l",".","c","o","m">>
      [] d = "SecMailOrg" -> <<"1","s","e","c","m","a","i","l",".","o","r","g">>
      [] d = "SecMailNet" -> <<"1","s","e","c","m","a","i","l",".","n","e","t">>
      [] d = "WwjmpCom"   -> <<"w","w","j","m","p",".","c","o","m">>
      [] d = "EsiixCom"   -> <<"e","s","i","i","x",".","c","o","m">>
      [] d = "XojxeCom"   -> <<"x","o","j","x","e",".","c","o","m">>
      [] d = "YoggmCom"   -> <<"y","o","g","g","m",".","c","o","m">>

Domain_default == "SecMailCom"

-----------------------------------------------------------------------------
(* Random numbers.  thread_rng() is a deterministic generator whose seed   *)
(* is unknown: Init draws its state and increment, random_rng() returns    *)
(* the sample rng_x / RngDen, a value of [0, 1), and steps the state.      *)

Samples == 0..(RngDen - 1)

random_rng == rng_x

rng_step == rng_x' = (rng_x + rng_stride) % RngDen

\* f64::round of the non-negative k * n / RngDen: half away from zero
RoundMul(k, n) == (2 * k * n + RngDen) \div (2 * RngDen)

\* f64::floor, and the truncating `as usize`, of the non-negative k * n / RngDen
FloorMul(k, n) == (k * n) \div RngDen

\* Domain::random with the sample k / RngDen: the index it computes, and the
\* element of DOMAINS at it, or the panic of an out-of-bounds array index
Domain_random_index(k) == RoundMul(k, Len(DOMAINS))

Domain_random(k) ==
    LET i == Domain_random_index(k)
    IN  IF i < Len(DOMAINS) THEN Ok(DOMAINS[i + 1]) ELSE Err("panic")

\* the alphabet `chars` of random_string
chars ==
    <<"a","b","c","d","e","f","g","h","i","j","k","l","m","n","o","p","q","r","s","t","u","w","x","y","z","A","B","C","D","E","F","G","H","I","J","K","L","M","N","O","P","Q","R","S","T","U","W","X","Y","Z","0","1","2","3","4","5","6","7","8","9">>

\* the length Tempmail::random draws: (10.0 + r * 40.0).floor() as usize
random_len(k) == 10 + FloorMul(k, 40)

\* the index random_string draws: (r * chars.len() as f64) as usize
random_index(k) == FloorMul(k, Len(chars))

-----------------------------------------------------------------------------
(* Random identities: Domain::random and Tempmail::random, one step per    *)
(* call of random_rng().                                                   *)

DomainCall(k) ==
    [sample |-> k, index |-> Domain_random_index(k), out |-> Domain_random(k)]

InitRandom ==
    /\ rng_x \in Samples
    /\ rng_stride \in Samples
    /\ rpc = "idle"
    /\ r_len = 0
    /\ r_string = <<>>
    /\ r_index = -1
    /\ r_self = None
    /\ domain_calls = <<>>
    /\ username = <<>>
    /\ domain = Domain_default
    /\ op = "none"
    /\ pc = "idle"
    /\ arg = <<>>
    /\ requests = <<>>
    /\ responses = <<>>
    /\ raw_msgs = <<>>
    /\ msgs = <<>>
    /\ result = None

\* Domain::random() called on its own
DomainRandomCall ==
    /\ rpc = "idle"
    /\ Len(domain_calls) < MaxDomainCalls
    /\ domain_calls' = Append(domain_calls, DomainCall(random_rng))
    /\ rng_step
    /\ rpc' = IF IsOk(Domain_random(random_rng)) THEN "idle" ELSE "panicked"
    /\ UNCHANGED <<rng_stride, r_len, r_string, r_index, r_self, clientVars>>

\* Tempmail::random(): `len` is drawn and random_string(len) is entered
TempmailRandomCall ==
    /\ rpc = "idle"
    /\ r_self = None
    /\ r_len' = random_len(random_rng)
    /\ rng_step
    /\ r_string' = <<>>
    /\ r_index' = -1
    /\ rpc' = "random_string"
    /\ UNCHANGED <<rng_stride, r_self, domain_calls, clientVars>>

\* one iteration of `for _ in 0..length` in random_string
RandomStringLoop ==
    /\ rpc = "random_string"
    /\ Len(r_string) < r_len
    /\ r_index' = random_index(random_rng)
    /\ r_string' = Append(r_string, chars[random_index(random_rng) + 1])
    /\ rng_step
    /\ UNCHANGED <<rng_stride, rpc, r_len, r_self, domain_calls, clientVars>>

\* random_string returns; Tempmail::random goes on to Domain::random()
RandomStringReturn ==
    /\ rpc = "random_string"
    /\ Len(r_string) = r_len
    /\ rpc' = "domain"
    /\ UNCHANGED <<rng_x, rng_stride, r_len, r_string, r_index, r_self, domain_calls,
                   clientVars>>

\* Domain::random() inside Tempmail::random, and the construction of Self
TempmailRandomDomain ==
    /\ rpc = "domain"
    /\ domain_calls' = Append(domain_calls, DomainCall(random_rng))
    /\ rng_step
    /\ IF IsOk(Domain_random(random_rng))
       THEN /\ r_self' = Some([username |-> r_string,
                               domain |-> Domain_random(random_rng)[2]])
            /\ rpc' = "done"
       ELSE /\ r_self' = r_self
            /\ rpc' = "panicked"
    /\ UNCHANGED <<rng_stride, r_len, r_string, r_index, clientVars>>

NextRandom ==
    \/ DomainRandomCall
    \/ TempmailRandomCall
    \/ RandomStringLoop
    \/ RandomStringReturn
    \/ TempmailRandomDomain

SpecRandom == InitRandom /\ [][NextRandom]_vars

-----------------------------------------------------------------------------
(* Strings the client formats.                                             *)

Digits == <<"0","1","2","3","4","5","6","7","8","9">>

\* Display of a usize: its decimal digits
RECURSIVE usize_fmt(_)
usize_fmt(n) ==
    IF n < 10 THEN <<Digits[n + 1]>>
    ELSE usize_fmt(n \div 10) \o <<Digits[(n % 10) + 1]>>

API_URL == <<"h","t","t","p","s",":","/","/","w","w","w",".","1","s","e","c","m","a","i","l",".","c","o","m","/","a","p","i","/","v","1","/">>

\* reqjson: format!("{}?{}", API_URL, query.as_ref())
reqjson_url(query) == API_URL \o <<"?">> \o query

\* get_raw_messages: format!("action=getMessages&login={}&domain={}", ..)
get_raw_messages_query(u, d) ==
    <<"a","c","t","i","o","n","=","g","e","t","M","e","s","s","a","g","e","s","&","l","o","g","i","n","=">>
    \o u \o <<"&","d","o","m","a","i","n","=">> \o Domain_fmt(d)

\* read_raw_messsage: format!("action=readMesage&login={}&domain={}&id={}", ..)
read_raw_messsage_query(u, d, id) ==
    <<"a","c","t","i","o","n","=","r","e","a","d","M","e","s","a","g","e","&","l","o","g","i","n","=">>
    \o u \o <<"&","d","o","m","a","i","n","=">> \o Domain_fmt(d)
    \o <<"&","i","d","=">> \o usize_fmt(id)

\* get_attachment: the string it hands to reqwest::get,
\* format!("action=download&login={}&domain={}&id={}&file={}", ..)
get_attachment_url(u, d, id, file) ==
    <<"a","c","t","i","o","n","=","d","o","w","n","l","o","a","d","&","l","o","g","i","n","=">>
    \o u \o <<"&","d","o","m","a","i","n","=">> \o Domain_fmt(d)
    \o <<"&","i","d","=">> \o usize_fmt(id) \o <<"&","f","i","l","e","=">> \o file

\* Tempmail::new: domain.unwrap_or_default()
Tempmail_new(u, d) ==
    [username |-> u, domain |-> IF IsSome(d) THEN d[1] ELSE Domain_default]

-----------------------------------------------------------------------------
(* Timestamps: NaiveDateTime::parse_from_str(date, "%Y-%m-%d %H:%M:%S").   *)
(* The format is a sequence of numeric items and literals.  A numeric item *)
(* takes the digits at the position, at least one and at most its width;   *)
(* a literal must be the next character; input left over is an error; the  *)
(* fields must then name a date and a time of day that exist.              *)

IsDigit(c) == c \in Range(Digits)

DigitValue(c) == CHOOSE v \in 0..9 : Digits[v + 1] = c

Num(w) == [kind |-> "num", width |-> w, ch |-> ""]
Lit(c) == [kind |-> "lit", width |-> 1, ch |-> c]

\* "%Y-%m-%d %H:%M:%S"
DATE_FORMAT ==
    <<Num(4), Lit("-"), Num(2), Lit("-"), Num(2), Lit(" "),
      Num(2), Lit(":"), Num(2), Lit(":"), Num(2)>>

\* how many digits a numeric item of width w takes at position pos
DigitsAt(s, pos, w) ==
    LET ok(n) == \A j \in 0..(n - 1) : pos + j <= Len(s) /\ IsDigit(s[pos + j])
    IN  CHOOSE n \in 0..w : ok(n) /\ (n = w \/ ~ok(n + 1))

RECURSIVE DecimalValue(_, _, _)
DecimalValue(s, pos, n) ==
    IF n = 0 THEN 0
    ELSE 10 * DecimalValue(s, pos, n - 1) + DigitValue(s[pos + n - 1])

\* the fields the items read from s, or <<>> when s does not match them
RECURSIVE ScanItems(_, _, _, _)
ScanItems(s, pos, items, fields) ==
    IF items = <<>>
    THEN IF pos = Len(s) + 1 THEN Some(fields) ELSE None
    ELSE LET it == Head(items)
         IN  IF it.kind = "lit"
             THEN IF pos <= Len(s) /\ s[pos] = it.ch
                  THEN ScanItems(s, pos + 1, Tail(items), fields)
                  ELSE None
             ELSE LET n == DigitsAt(s, pos, it.width)
                  IN  IF n = 0 THEN None
                      ELSE ScanItems(s, pos + n, Tail(items),
                                     Append(fields, DecimalValue(s, pos, n)))

IsLeapYear(y) == (y % 4 = 0 /\ y % 100 # 0) \/ y % 400 = 0

DaysInMonth(y, m) ==
    IF m = 2 THEN (IF IsLeapYear(y) THEN 29 ELSE 28)
    ELSE IF m \in {4, 6, 9, 11} THEN 30 ELSE 31

parse_from_str(s) ==
    LET f == ScanItems(s, 1, DATE_FORMAT, <<>>)
    IN  IF f = None THEN Err("parse")
        ELSE LET v == f[1]
             IN  IF /\ v[2] \in 1..12
                    /\ v[3] \in 1..DaysInMonth(v[1], v[2])
                    /\ v[4] \in 0..23
                    /\ v[5] \in 0..59
                    /\ v[6] \in 0..60
                 THEN Ok([year |-> v[1], month |-> v[2], day |-> v[3],
                          hour |-> v[4], minute |-> v[5], second |-> v[6]])
                 ELSE Err("parse")

\* the date strings the remote service sends in this model
DateSamples ==
    { <<"2","0","2","3","-","0","1","-","1","5"," ","1","0",":","3","0",":","0","0">>,
      <<"2","0","2","4","-","2","-","2","9"," ","9",":","0","5",":","0","7">>,
      <<"1","5","/","0","1","/","2","0","2","3">>,
      <<"2","0","2","3","-","0","2","-","3","0"," ","1","0",":","3","0",":","0","0">> }

\* parse_from_str on each of them, evaluated once
ParsedDate == [s \in DateSamples |-> parse_from_str(s)]

-----------------------------------------------------------------------------
(* serde: Deserialize for RawMessage and for Message.  The wrapper is the  *)
(* JSON object as received; a field of type Option<String> that is absent  *)
(* or null is None.                                                        *)

\* Deserialize for RawMessage as it would be with the parse error swallowed:
\* `.unwrap_or_default()` in place of `.map_err(..)?`
Deserialize_RawMessage_DefaultTimestamp(w) ==
    LET timestamp == ParsedDate[w.date]
    IN  Ok([id |-> w.id, from |-> w.from, subject |-> w.subject,
            timestamp |-> IF IsErr(timestamp)
                          THEN [year |-> 1970, month |-> 1, day |-> 1,
                                hour |-> 0, minute |-> 0, second |-> 0]
                          ELSE timestamp[2]])

\* impl Deserialize for RawMessage
Deserialize_RawMessage(w) ==
    LET timestamp == ParsedDate[w.date]
    IN  IF IsErr(timestamp) THEN Err("decode:date")
        ELSE Ok([id |-> w.id, from |-> w.from, subject |-> w.subject,
                 timestamp |-> timestamp[2]])

\* impl Deserialize for Message
Deserialize_Message(w) ==
    LET timestamp == ParsedDate[w.date]
    IN  IF IsErr(timestamp) THEN Err("decode:date")
        ELSE Ok([id |-> w.id, from |-> w.from, subject |-> w.subject,
                 timestamp |-> timestamp[2], attachments |-> w.attachments,
                 body |-> w.body, text_body |-> w.text_body,
                 html_body |-> w.html_body])

\* Vec<RawMessage>: the elements in order, or the error of the first that fails
RECURSIVE Deserialize_Vec_RawMessage(_)
Deserialize_Vec_RawMessage(ws) ==
    IF ws = <<>> THEN Ok(<<>>)
    ELSE LET head == Deserialize_RawMessage(Head(ws))
         IN  IF IsErr(head) THEN head
             ELSE LET rest == Deserialize_Vec_RawMessage(Tail(ws))
                  IN  IF IsErr(rest) THEN rest
                      ELSE Ok(<<head[2]>> \o rest[2])

\* A response body is <<"array", wrappers>>, <<"object", wrapper>> or <<"other">>
\* (anything that is not JSON of the shape asked for).
json_Vec_RawMessage(body) ==
    IF body[1] = "array" THEN Deserialize_Vec_RawMessage(body[2])
    ELSE Err("decode:shape")

json_Message(body) ==
    IF body[1] = "object" THEN Deserialize_Message(body[2])
    ELSE Err("decode:shape")

\* reqjson::<_, Vec<RawMessage>> once reqwest::get has resolved to resp:
\* `.await?` passes a transport error on, `.json().await` decodes the body
reqjson_Vec_RawMessage(resp) ==
    IF IsErr(resp) THEN resp ELSE json_Vec_RawMessage(resp[2])

\* reqjson::<_, Message>
reqjson_Message(resp) ==
    IF IsErr(resp) THEN resp ELSE json_Message(resp[2])

\* read_raw_messsage as it would be without its `if let Some(html_body)` block
read_raw_messsage_Unnormalized(resp) == reqjson_Message(resp)

\* read_raw_messsage once its request has resolved to resp: the decoded message
\* with an empty html_body replaced by None
read_raw_messsage(resp) ==
    LET msg == reqjson_Message(resp)
    IN  IF IsErr(msg) THEN msg
        ELSE IF IsSome(msg[2].html_body) /\ msg[2].html_body[1] = <<>>
             THEN Ok([msg[2] EXCEPT !.html_body = None])
             ELSE msg

-----------------------------------------------------------------------------
(* The transport: reqwest::get(url).  A string that is no absolute URL     *)
(* (no scheme before the first ':') never leaves the client: the request   *)
(* resolves to a builder error.  Otherwise it resolves to a network error  *)
(* or to a response body chosen by the remote service.                     *)

ALPHA_LOWER == <<"a","b","c","d","e","f","g","h","i","j","k","l","m","n","o","p","q","r","s","t","u","v","w","x","y","z">>

ALPHA_UPPER == <<"A","B","C","D","E","F","G","H","I","J","K","L","M","N","O","P","Q","R","S","T","U","V","W","X","Y","Z">>

SchemeChars == Range(ALPHA_LOWER) \cup Range(ALPHA_UPPER) \cup Range(Digits)
                   \cup {"+", "-", "."}

IsAbsoluteUrl(url) ==
    \E i \in 2..Len(url) :
        /\ url[i] = ":"
        /\ url[1] \in Range(ALPHA_LOWER) \cup Range(ALPHA_UPPER)
        /\ \A j \in 1..(i - 1) : url[j] \in SchemeChars

NetworkErrors == {"request:connect", "request:timeout"}

reqwest_get(url, bodies) ==
    IF IsAbsoluteUrl(url)
    THEN {Err(e) : e \in NetworkErrors} \cup {Ok(b) : b \in bodies}
    ELSE {Err("builder")}

-----------------------------------------------------------------------------
(* The callers' inputs and the remote service's answers.                   *)

Usernames == {<<"b","o","b">>, <<"a","&","l","o","g","i","n","=","x">>}

DomainOptions == {None} \cup {Some(d) : d \in Domain}

Ids == IdBase..(IdBase + MaxMsgs - 1)

Filenames == {<<"a",".","t","x","t">>}

HtmlSamples == {None, Some(<<>>), Some(<<"<","p",">","h","i","<","/","p",">">>)}

SENDER == <<"a","l","i","c","e","@","e","x","a","m","p","l","e",".","c","o","m">>

SUBJECT == <<"h","i">>

TEXT == <<"h","e","l","l","o">>

ATTACHMENTS == <<[filename |-> <<"a",".","t","x","t">>, content_type |-> <<"t","e","x","t","/","p","l","a","i","n">>, size |-> 5]>>

RawMessageWrappers ==
    {[id |-> i, from |-> SENDER, subject |-> SUBJECT, date |-> d] :
        i \in Ids, d \in DateSamples}

MessageWrappers(i) ==
    {[id |-> i, from |-> SENDER, subject |-> SUBJECT, date |-> d,
      attachments |-> ATTACHMENTS, body |-> TEXT, text_body |-> TEXT,
      html_body |-> h] : d \in DateSamples, h \in HtmlSamples}

\* the service lists each message once
Listings ==
    UNION {{s \in [1..n -> RawMessageWrappers] :
                \A i, j \in 1..n : i # j => s[i].id # s[j].id} : n \in 0..MaxMsgs}

ListBodies == {<<"array", s>> : s \in Listings} \cup {<<"other">>}

HydrateBodies(i) == {<<"object", w>> : w \in MessageWrappers(i)} \cup {<<"other">>}

ByteBodies == {<<"bytes", <<104, 105>>>>}

\* the RawMessage values a caller can hand to read_raw_messsage
RawMessages ==
    {Deserialize_RawMessage(w)[2] :
        w \in {x \in RawMessageWrappers : IsOk(Deserialize_RawMessage(x))}}

-----------------------------------------------------------------------------
(* The remote operations of Tempmail.  An operation runs from its call to  *)
(* its return; it is suspended only while a request is in flight.          *)

Init ==
    /\ rng_x = 0
    /\ rng_stride = 0
    /\ rpc = "idle"
    /\ r_len = 0
    /\ r_string = <<>>
    /\ r_index = -1
    /\ r_self = None
    /\ domain_calls = <<>>
    /\ \E u \in Usernames, d \in DomainOptions :
          /\ username = Tempmail_new(u, d).username
          /\ domain = Tempmail_new(u, d).domain
    /\ op = "none"
    /\ pc = "idle"
    /\ arg = <<>>
    /\ requests = <<>>
    /\ responses = <<>>
    /\ raw_msgs = <<>>
    /\ msgs = <<>>
    /\ result = None

Call(name, a, url, at) ==
    /\ pc = "idle"
    /\ op' = name
    /\ arg' = a
    /\ requests' = <<url>>
    /\ responses' = <<>>
    /\ pc' = at
    /\ UNCHANGED <<username, domain, raw_msgs, msgs, result, randVars>>

Finish(r) ==
    /\ result' = Some(r)
    /\ pc' = "done"

\* get_raw_messages is called: the list request is sent
GetRawMessagesCall ==
    Call("get_raw_messages", <<>>,
         reqjson_url(get_raw_messages_query(username, domain)), "list_await")

\* the list request resolves: get_raw_messages returns what reqjson returns
GetRawMessagesResume ==
    /\ op = "get_raw_messages" /\ pc = "list_await"
    /\ \E resp \in reqwest_get(requests[Len(requests)], ListBodies) :
          /\ responses' = Append(responses, resp)
          /\ Finish(reqjson_Vec_RawMessage(resp))
    /\ UNCHANGED <<username, domain, op, arg, requests, raw_msgs, msgs, randVars>>

\* get_messages is called: self.get_raw_messages() sends the list request
GetMessagesCall ==
    Call("get_messages", <<>>,
         reqjson_url(get_raw_messages_query(username, domain)), "list_await")

\* the request read_raw_messsage sends for raw_msg
hydrate_url(raw_msg) ==
    reqjson_url(read_raw_messsage_query(username, domain, raw_msg.id))

\* get_messages after `self.get_raw_messages().await?`: an error returns; else
\* the loop starts, and its first iteration sends the first hydrate request
GetMessagesListResume ==
    /\ op = "get_messages" /\ pc = "list_await"
    /\ \E resp \in reqwest_get(requests[Len(requests)], ListBodies) :
          LET r == reqjson_Vec_RawMessage(resp)
          IN  /\ responses' = Append(responses, resp)
              /\ IF IsErr(r)
                 THEN /\ Finish(r)
                      /\ UNCHANGED <<raw_msgs, msgs, requests>>
                 ELSE /\ raw_msgs' = r[2]
                      /\ msgs' = <<>>
                      /\ IF r[2] = <<>>
                         THEN /\ Finish(Ok(<<>>))
                              /\ UNCHANGED requests
                         ELSE /\ requests' = Append(requests, hydrate_url(r[2][1]))
                              /\ pc' = "hydrate_await"
                              /\ UNCHANGED result
    /\ UNCHANGED <<username, domain, op, arg, randVars>>

\* get_messages as it would be with `msgs.insert(0, msg)` in place of
\* `msgs.push(msg)`
GetMessagesHydrateResume_Insert0 ==
    /\ op = "get_messages" /\ pc = "hydrate_await"
    /\ \E resp \in reqwest_get(requests[Len(requests)],
                               HydrateBodies(raw_msgs[Len(msgs) + 1].id)) :
          LET msg == read_raw_messsage(resp)
          IN  /\ responses' = Append(responses, resp)
              /\ IF IsErr(msg)
                 THEN /\ Finish(msg)
                      /\ UNCHANGED <<msgs, requests>>
                 ELSE /\ msgs' = <<msg[2]>> \o msgs
                      /\ IF Len(msgs) + 1 = Len(raw_msgs)
                         THEN /\ Finish(Ok(<<msg[2]>> \o msgs))
                              /\ UNCHANGED requests
                         ELSE /\ requests' = Append(requests,
                                               hydrate_url(raw_msgs[Len(msgs) + 2]))
                              /\ UNCHANGED <<pc, result>>
    /\ UNCHANGED <<username, domain, op, arg, raw_msgs, randVars>>

\* get_messages as it would be if a failed hydration ended the loop and the
\* messages hydrated so far were returned: `Err(_) => break` in place of `?`
GetMessagesHydrateResume_Partial ==
    /\ op = "get_messages" /\ pc = "hydrate_await"
    /\ \E resp \in reqwest_get(requests[Len(requests)],
                               HydrateBodies(raw_msgs[Len(msgs) + 1].id)) :
          LET msg == read_raw_messsage(resp)
          IN  /\ responses' = Append(responses, resp)
              /\ IF IsErr(msg)
                 THEN /\ Finish(Ok(msgs))
                      /\ UNCHANGED <<msgs, requests>>
                 ELSE /\ msgs' = Append(msgs, msg[2])
                      /\ IF Len(msgs) + 1 = Len(raw_msgs)
                         THEN /\ Finish(Ok(Append(msgs, msg[2])))
                              /\ UNCHANGED requests
                         ELSE /\ requests' = Append(requests,
                                               hydrate_url(raw_msgs[Len(msgs) + 2]))
                              /\ UNCHANGED <<pc, result>>
    /\ UNCHANGED <<username, domain, op, arg, raw_msgs, randVars>>

\* get_messages after `self.read_raw_messsage(&raw_msg).await?`: an error
\* returns; else the message is pushed and the loop goes on or ends
GetMessagesHydrateResume ==
    /\ op = "get_messages" /\ pc = "hydrate_await"
    /\ \E resp \in reqwest_get(requests[Len(requests)],
                               HydrateBodies(raw_msgs[Len(msgs) + 1].id)) :
          LET msg == read_raw_messsage(resp)
          IN  /\ responses' = Append(responses, resp)
              /\ IF IsErr(msg)
                 THEN /\ Finish(msg)
                      /\ UNCHANGED <<msgs, requests>>
                 ELSE /\ msgs' = Append(msgs, msg[2])
                      /\ IF Len(msgs) + 1 = Len(raw_msgs)
                         THEN /\ Finish(Ok(Append(msgs, msg[2])))
                              /\ UNCHANGED requests
                         ELSE /\ requests' = Append(requests,
                                               hydrate_url(raw_msgs[Len(msgs) + 2]))
                              /\ UNCHANGED <<pc, result>>
    /\ UNCHANGED <<username, domain, op, arg, raw_msgs, randVars>>

\* read_raw_messsage(raw_msg) is called on its own: the hydrate request is sent
ReadRawMessageCall ==
    \E raw_msg \in RawMessages :
        Call("read_raw_messsage", <<raw_msg>>, hydrate_url(raw_msg), "read_await")

\* its request resolves
ReadRawMessageResume ==
    /\ op = "read_raw_messsage" /\ pc = "read_await"
    /\ \E resp \in reqwest_get(requests[Len(requests)], HydrateBodies(arg[1].id)) :
          /\ responses' = Append(responses, resp)
          /\ Finish(read_raw_messsage(resp))
    /\ UNCHANGED <<username, domain, op, arg, requests, raw_msgs, msgs, randVars>>

\* get_attachment(msg_id, filename) is called
GetAttachmentCall ==
    \E msg_id \in Ids, filename \in Filenames :
        Call("get_attachment", <<msg_id, filename>>,
             get_attachment_url(username, domain, msg_id, filename), "bytes_await")

\* its request resolves: `.await?`, then `.bytes().await.map(|b| b.to_vec())`
GetAttachmentResume ==
    /\ op = "get_attachment" /\ pc = "bytes_await"
    /\ \E resp \in reqwest_get(requests[Len(requests)], ByteBodies) :
          /\ responses' = Append(responses, resp)
          /\ Finish(IF IsErr(resp) THEN resp ELSE Ok(resp[2][2]))
    /\ UNCHANGED <<username, domain, op, arg, requests, raw_msgs, msgs, randVars>>

\* a caller decodes a hydrate-response record with Message's Deserialize
\* (serde_json::from_str::<Message>), without the client
DeserializeMessage ==
    /\ pc = "idle"
    /\ \E i \in Ids : \E w \in MessageWrappers(i) :
          /\ op' = "deserialize_message"
          /\ arg' = <<w>>
          /\ Finish(Deserialize_Message(w))
    /\ UNCHANGED <<username, domain, requests, responses, raw_msgs, msgs, randVars>>

\* the operation has returned; its locals are dropped
Return ==
    /\ pc = "done"
    /\ op' = "none"
    /\ pc' = "idle"
    /\ arg' = <<>>
    /\ requests' = <<>>
    /\ responses' = <<>>
    /\ raw_msgs' = <<>>
    /\ msgs' = <<>>
    /\ result' = None
    /\ UNCHANGED <<username, domain, randVars>>

Next ==
    \/ GetRawMessagesCall
    \/ GetRawMessagesResume
    \/ GetMessagesCall
    \/ GetMessagesListResume
    \/ GetMessagesHydrateResume
    \/ ReadRawMessageCall
    \/ ReadRawMessageResume
    \/ GetAttachmentCall
    \/ GetAttachmentResume
    \/ DeserializeMessage
    \/ Return

Spec == Init /\ [][Next]_vars

-----------------------------------------------------------------------------
(* Helpers of the properties: prefixes, and the parameters of a query.     *)

HasPrefix(s, p) == Len(s) >= Len(p) /\ SubSeq(s, 1, Len(p)) = p

\* the first position of c in s, 0 when there is none
IndexOf(s, c) ==
    IF c \in Range(s) THEN CHOOSE i \in 1..Len(s) :
                               s[i] = c /\ \A j \in 1..(i - 1) : s[j] # c
    ELSE 0

\* the query component of a URL: what follows the first '?'
QueryOf(url) ==
    IF IndexOf(url, "?") = 0 THEN url
    ELSE SubSeq(url, IndexOf(url, "?") + 1, Len(url))

RECURSIVE Split(_, _)
Split(s, c) ==
    IF IndexOf(s, c) = 0 THEN <<s>>
    ELSE <<SubSeq(s, 1, IndexOf(s, c) - 1)>>
         \o Split(SubSeq(s, IndexOf(s, c) + 1, Len(s)), c)

ParamKey(p) == IF IndexOf(p, "=") = 0 THEN p ELSE SubSeq(p, 1, IndexOf(p, "=") - 1)

ParamValue(p) ==
    IF IndexOf(p, "=") = 0 THEN <<>> ELSE SubSeq(p, IndexOf(p, "=") + 1, Len(p))

\* the values of the parameters named key in query q, in order
ParamValues(q, key) ==
    LET ps == Split(q, "&")
        pick == SelectSeq(ps, LAMBDA p : ParamKey(p) = key)
    IN  [i \in 1..Len(pick) |-> ParamValue(pick[i])]

CanonicalDomains == {Domain_fmt(d) : d \in Domain}

\* the 62 symbols: 26 lower-case letters, 26 upper-case letters, 10 digits
Alphabet62 == ALPHA_LOWER \o ALPHA_UPPER \o Digits

\* the bin [b/7, (b+1)/7) of the sample k / RngDen
Bin(k) == FloorMul(k, Len(DOMAINS))

list_url == reqjson_url(get_raw_messages_query(username, domain))

\* what get_raw_messages makes of the first response of the running operation
Listed == reqjson_Vec_RawMessage(responses[1])

\* the JSON object a response carries
WireObject(resp) == resp[2][2]

BadDate(d) == IsErr(ParsedDate[d])

ListHasBadDate(resp) ==
    /\ IsOk(resp) /\ resp[2][1] = "array"
    /\ \E i \in 1..Len(resp[2][2]) : BadDate(resp[2][2][i].date)

ObjectHasBadDate(resp) ==
    IsOk(resp) /\ resp[2][1] = "object" /\ BadDate(resp[2][2].date)

\* message m is wire object w with the html_body rule applied and nothing else
\* changed
NormalizedFrom(m, w) ==
    /\ m.html_body = (IF w.html_body = Some(<<>>) THEN None ELSE w.html_body)
    /\ m.html_body # Some(<<>>)
    /\ m.id = w.id /\ m.from = w.from /\ m.subject = w.subject
    /\ m.attachments = w.attachments
    /\ m.body = w.body /\ m.text_body = w.text_body
    /\ Ok(m.timestamp) = ParsedDate[w.date]

-----------------------------------------------------------------------------
(* The properties.                                                         *)

\* C1: Domain::random never computes an out-of-range index: for every sample
\* of [0, 1) the index lies in 0 .. 6 and the call returns one of the 7
\* domains without panicking.
C1_IndexInRange ==
    /\ rpc # "panicked"
    /\ \A i \in 1..Len(domain_calls) :
          /\ domain_calls[i].index \in 0..(Len(DOMAINS) - 1)
          /\ IsOk(domain_calls[i].out)
          /\ domain_calls[i].out[2] \in Domain

\* C2: when every request succeeds, get_messages sends one list request and
\* then one hydrate request per listed summary, in the order listed and each
\* only after the previous one has resolved, and returns as many messages as
\* summaries, the i-th being what read_raw_messsage makes of the i-th summary;
\* for an empty list it sends no hydrate request and returns Ok([]).
C2_SequentialHydration ==
    op = "get_messages" =>
        /\ requests[1] = list_url
        /\ Len(responses) <= Len(requests)
        /\ Len(requests) <= Len(responses) + 1
        /\ (Len(responses) >= 1 /\ IsOk(Listed)) =>
              /\ Len(requests) <= 1 + Len(Listed[2])
              /\ \A i \in 2..Len(requests) :
                    requests[i] = hydrate_url(Listed[2][i - 1])
              /\ ( /\ pc = "done"
                   /\ \A i \in 2..Len(responses) :
                         IsOk(read_raw_messsage(responses[i])) ) =>
                    /\ Len(requests) = 1 + Len(Listed[2])
                    /\ Len(responses) = Len(requests)
                    /\ IsOk(result[1])
                    /\ Len(result[1][2]) = Len(Listed[2])
                    /\ \A i \in 1..Len(Listed[2]) :
                          result[1][2][i] = read_raw_messsage(responses[i + 1])[2]

\* C2's case: get_messages has returned two or more messages
C2_Witness ==
    /\ op = "get_messages" /\ pc = "done"
    /\ IsOk(result[1])
    /\ Len(result[1][2]) >= 2
    /\ Len(requests) = 1 + Len(result[1][2])

\* C3: get_messages is fail-fast and all-or-nothing: after a failed list
\* request no hydrate request is sent; after the hydration of the k-th summary
\* fails no further request is sent, the call returns exactly that failure, and
\* none of the messages hydrated before is returned.
C3_FailFast ==
    (op = "get_messages" /\ Len(responses) >= 1) =>
        /\ IsErr(Listed) =>
              /\ Len(requests) = 1 /\ pc = "done"
              /\ IsErr(result[1]) /\ result[1][2] = Listed[2]
        /\ \A k \in 2..Len(responses) :
              IsErr(read_raw_messsage(responses[k])) =>
                  /\ k = Len(responses) /\ Len(requests) = k /\ pc = "done"
                  /\ IsErr(result[1])
                  /\ result[1][2] = read_raw_messsage(responses[k])[2]

\* C3's case: of two listed summaries the first failed to hydrate, and the
\* call has returned the failure with no request sent for the second
C3_Witness ==
    /\ op = "get_messages" /\ pc = "done"
    /\ Len(raw_msgs) >= 2
    /\ Len(responses) = 2
    /\ IsErr(read_raw_messsage(responses[2]))
    /\ IsErr(result[1])

\* C4: every request goes to the base endpoint with the formatted query as
\* its query component; get_attachment requests
\* <API_URL>?action=download&login=..&domain=..&id=..&file=..
C4_BaseEndpoint ==
    /\ \A i \in 1..Len(requests) : HasPrefix(requests[i], API_URL \o <<"?">>)
    /\ (op = "get_attachment") =>
          requests[1] = reqjson_url(get_attachment_url(username, domain,
                                                       arg[1], arg[2]))

\* C5: every Message read_raw_messsage returns, and every element get_messages
\* collects and returns, has html_body normalized (an empty string becomes
\* None, a non-empty one is kept, an absent one stays None, never Some(""))
\* and no other field changed.
C5_HtmlBodyNormalized ==
    /\ (op = "read_raw_messsage" /\ pc = "done" /\ IsOk(result[1])) =>
          NormalizedFrom(result[1][2], WireObject(responses[1]))
    /\ (op = "get_messages") =>
          /\ \A i \in 1..Len(msgs) :
                NormalizedFrom(msgs[i], WireObject(responses[i + 1]))
          /\ (pc = "done" /\ IsOk(result[1])) => result[1][2] = msgs

\* C5's case: read_raw_messsage received html_body = "" and returned None
C5_Witness ==
    /\ op = "read_raw_messsage" /\ pc = "done"
    /\ IsOk(result[1])
    /\ WireObject(responses[1]).html_body = Some(<<>>)
    /\ result[1][2].html_body = None

\* C6: the query of every request holds exactly one login= and exactly one
\* domain= parameter, the latter with one of the seven canonical strings, also
\* for a username with reserved characters.
C6_OneLoginOneDomain ==
    \A i \in 1..Len(requests) :
        /\ Len(ParamValues(QueryOf(requests[i]), <<"l","o","g","i","n">>)) = 1
        /\ Len(ParamValues(QueryOf(requests[i]), <<"d","o","m","a","i","n">>)) = 1
        /\ ParamValues(QueryOf(requests[i]), <<"d","o","m","a","i","n">>)[1] \in CanonicalDomains

C8_DecodeNormalizes ==
    (op = "deserialize_message" /\ pc = "done" /\ IsOk(result[1])) =>
        /\ result[1][2].html_body # Some(<<>>)
        /\ result[1][2].html_body
               = (IF arg[1].html_body = Some(<<>>) THEN None ELSE arg[1].html_body)

\* C9: Domain::random is uniform: seven samples, one from each of the seven
\* equal bins [b/7, (b+1)/7), produce every one of the seven domains.
C9_EveryDomainFromSevenBins ==
    ( /\ Len(domain_calls) = Len(DOMAINS)
      /\ {Bin(domain_calls[i].sample) : i \in 1..Len(domain_calls)}
             = 0..(Len(DOMAINS) - 1) ) =>
        {domain_calls[i].out : i \in 1..Len(domain_calls)} = {Ok(d) : d \in Domain}

\* C10: the username of Tempmail::random has a length in 10 .. 50, and each of
\* its characters is the symbol at an in-bounds index of the 62-symbol
\* alphabet a-z, A-Z, 0-9.
C10_LengthAndAlphabet62 ==
    (rpc \in {"random_string", "domain", "done"}) =>
        /\ r_len \in 10..50
        /\ Len(r_string) <= r_len
        /\ (rpc = "done") => Len(r_self[1].username) = r_len
        /\ \A i \in 1..Len(r_string) : r_string[i] \in Range(Alphabet62)
        /\ (r_index >= 0) =>
              /\ r_index \in 0..(Len(Alphabet62) - 1)
              /\ r_string[Len(r_string)] = Alphabet62[r_index + 1]
====
